---- MODULE Spec2Model ----
(***************************************************************************)
(* The procurement dashboard of src/app.py as a state machine.  One run of *)
(* the script loads the three tables and then evaluates the tabs from top  *)
(* to bottom; every tab is one action that computes the figures it shows.  *)
(*                                                                         *)
(* Numbers are the float64 values of the pandas columns.  They are kept    *)
(* as exact rationals together with the IEEE specials +inf, -inf and NaN:  *)
(* division by zero yields inf or NaN as numpy does, NaN compares false    *)
(* with everything, and sums skip NaN as pandas does.  The figures of the  *)
(* tabs are computed without the rounding of the 53-bit mantissa; the      *)
(* share test of high_dependency is also modelled with it (RoundingSpec).  *)
(***************************************************************************)
EXTENDS Integers, Sequences, FiniteSets, TLC

VARIABLES
    pc,                 \* position of the script run
    csv,                \* contents of the three CSV files
    factory_data,       \* table of the factory file
    supplier_data,      \* table of the supplier file
    category_data,      \* table of the sub-category spend file
    tab1,               \* figures of tab 1 (overview)
    tab_manager,        \* figures of the manager tab
    tab2,               \* figures of tab 2 (category analysis)
    tab3,               \* figures of tab 3 (supplier matrix)
    tab4,               \* figures of tab 4 (risk)
    tab5,               \* figures of tab 5 (detail)
    exception,          \* the exception that ended the run, "" while there is none
    now,                \* the clock, in seconds
    cache,              \* the entry of load_data in st.cache_data
    session_state,      \* st.session_state of every browser session
    rerun,              \* the sessions whose rerun st.rerun() has requested
    run,                \* the session of the script run and how it got its tables
    sidebar             \* what the run has written below the refresh button

vars == <<pc, csv, factory_data, supplier_data, category_data, tab1, tab_manager, tab2,
          tab3, tab4, tab5, exception, now, cache, session_state, rerun, run, sidebar>>

\* what no tab touches
session_vars == <<now, cache, session_state, rerun, run, sidebar>>

---------------------------------------------------------------------------
(* float64 arithmetic *)

Abs(x) == IF x < 0 THEN -x ELSE x

RECURSIVE GCD(_, _)
GCD(a, b) == IF b = 0 THEN a ELSE GCD(b, a % b)

\* the rational n/d (d # 0) in lowest terms with a positive denominator
Rat(n, d) ==
    LET s == IF d < 0 THEN -1 ELSE 1
        g == GCD(Abs(n), Abs(d))
    IN  [k |-> "num", n |-> (s * n) \div g, d |-> (s * d) \div g]

Num(i) == [k |-> "num", n |-> i, d |-> 1]
NaN == [k |-> "nan", n |-> 0, d |-> 1]
Inf == [k |-> "inf", n |-> 1, d |-> 1]
NegInf == [k |-> "inf", n |-> -1, d |-> 1]

IsNaN(x) == x.k = "nan"
Sgn(i) == IF i > 0 THEN 1 ELSE IF i < 0 THEN -1 ELSE 0
SignedInf(s) == IF s < 0 THEN NegInf ELSE Inf

\* ==, !=, <, >, <= of floats: every comparison with NaN but != is false
FEq(a, b) == ~IsNaN(a) /\ ~IsNaN(b) /\ a = b
FNe(a, b) == ~FEq(a, b)
FLt(a, b) ==
    /\ ~IsNaN(a)
    /\ ~IsNaN(b)
    /\ IF a.k = "inf" THEN a.n < 0 /\ b # NegInf
       ELSE IF b.k = "inf" THEN b.n > 0
       ELSE a.n * b.d < b.n * a.d
FGt(a, b) == FLt(b, a)
FLe(a, b) == FLt(a, b) \/ FEq(a, b)

FNeg(a) == IF IsNaN(a) THEN NaN ELSE [a EXCEPT !.n = -a.n]

FAdd(a, b) ==
    IF IsNaN(a) \/ IsNaN(b) THEN NaN
    ELSE IF a.k = "inf" THEN (IF b.k = "inf" /\ b.n # a.n THEN NaN ELSE a)
    ELSE IF b.k = "inf" THEN b
    ELSE Rat(a.n * b.d + b.n * a.d, a.d * b.d)

FSub(a, b) == FAdd(a, FNeg(b))

FMul(a, b) ==
    IF IsNaN(a) \/ IsNaN(b) THEN NaN
    ELSE IF a.k = "inf" \/ b.k = "inf"
         THEN (IF a.n = 0 \/ b.n = 0 THEN NaN ELSE SignedInf(Sgn(a.n) * Sgn(b.n)))
    ELSE Rat(a.n * b.n, a.d * b.d)

\* numpy division: x/0 is +-inf, 0/0 is NaN, nothing is raised
FDiv(a, b) ==
    IF IsNaN(a) \/ IsNaN(b) THEN NaN
    ELSE IF a.k = "inf" THEN (IF b.k = "inf" THEN NaN
                              ELSE SignedInf(a.n * (IF b.n < 0 THEN -1 ELSE 1)))
    ELSE IF b.k = "inf" THEN Num(0)
    ELSE IF b.n = 0 THEN (IF a.n = 0 THEN NaN ELSE SignedInf(a.n))
    ELSE Rat(a.n * b.d, a.d * b.n)

---------------------------------------------------------------------------
(* pandas helpers: a table is a sequence of rows, a row a record whose     *)
(* field id is the row label                                               *)

Range(s) == {s[i] : i \in 1..Len(s)}

\* Series.sum(): NaN is skipped, the empty sum is 0 (the rows lo..hi, summed
\* by halves)
RECURSIVE SumBetween(_, _, _, _)
SumBetween(df, col, lo, hi) ==
    IF lo > hi THEN Num(0)
    ELSE IF lo = hi THEN (IF IsNaN(df[lo][col]) THEN Num(0) ELSE df[lo][col])
    ELSE LET mid == (lo + hi) \div 2
         IN  FAdd(SumBetween(df, col, lo, mid), SumBetween(df, col, mid + 1, hi))

ColSum(df, col) == SumBetween(df, col, 1, Len(df))

\* df[col] and df[col] = series
Column(df, col) == [i \in 1..Len(df) |-> df[i][col]]
SetColumn(df, col, series) == [i \in 1..Len(df) |-> [df[i] EXCEPT ![col] = series[i]]]

\* df.head(n)
HeadN(df, n) == SubSeq(df, 1, IF n < Len(df) THEN n ELSE Len(df))

\* StableSort that puts the later of two rows of equal key first
StableSort_last_first(df, col, desc) ==
    LET n == Len(df)
        Ahead(i, j) ==
            \/ IF desc THEN FGt(df[i][col], df[j][col]) ELSE FLt(df[i][col], df[j][col])
            \/ FEq(df[i][col], df[j][col]) /\ i > j
        place == SubSeq([i \in 1..n |-> 1 + Cardinality({j \in 1..n : Ahead(j, i)})], 1, n)
    IN  SubSeq([p \in 1..n |-> df[CHOOSE i \in 1..n : place[i] = p]], 1, n)

\* stable sort of the rows by col (no key is NaN): a row's place is one more
\* than the number of rows ahead of it, and of two rows of equal key the
\* earlier one is ahead, in both directions
StableSort(df, col, desc) ==
    LET n == Len(df)
        Ahead(i, j) ==
            \/ IF desc THEN FGt(df[i][col], df[j][col]) ELSE FLt(df[i][col], df[j][col])
            \/ FEq(df[i][col], df[j][col]) /\ i < j
        place == SubSeq([i \in 1..n |-> 1 + Cardinality({j \in 1..n : Ahead(j, i)})], 1, n)
    IN  SubSeq([p \in 1..n |-> df[CHOOSE i \in 1..n : place[i] = p]], 1, n)

\* SelectN that leaves the rows with a NaN key out instead of filling up
SelectN_dropping_nan(df, n, col, desc) ==
    LET dropped == SelectSeq(df, LAMBDA r : ~IsNaN(r[col]))
    IN  IF n <= 0 THEN <<>>
        ELSE SubSeq(StableSort(dropped, col, desc), 1,
                    IF n < Len(dropped) THEN n ELSE Len(dropped))

\* DataFrame.nlargest / nsmallest (keep='first'): the n rows with the largest
\* (desc) or smallest keys, best first, equal keys in input order; rows whose
\* key is NaN come last, in input order, and fill up to n
SelectN(df, n, col, desc) ==
    LET dropped == SelectSeq(df, LAMBDA r : ~IsNaN(r[col]))
        nan_index == SelectSeq(df, LAMBDA r : IsNaN(r[col]))
    IN  IF n <= 0 THEN <<>>
        ELSE IF n >= Len(df)
             THEN HeadN(StableSort(dropped, col, desc) \o nan_index, n)
        ELSE IF Len(dropped) = 0 THEN HeadN(nan_index, n)
        ELSE LET m == IF n < Len(dropped) THEN n ELSE Len(dropped)
                 kth_val == StableSort(dropped, col, desc)[m][col]
                 ns == SelectSeq(dropped, LAMBDA r :
                           IF desc THEN ~FLt(r[col], kth_val) ELSE ~FGt(r[col], kth_val))
                 inds == HeadN(StableSort(ns, col, desc), m)
             IN  HeadN(inds \o nan_index, n)

nlargest(df, n, col) == SelectN(df, n, col, TRUE)
nsmallest(df, n, col) == SelectN(df, n, col, FALSE)

\* quantile that takes the higher of the two nearest order statistics
quantile_higher(df, col, qn, qd) ==
    LET x == StableSort(SelectSeq(df, LAMBDA r : ~IsNaN(r[col])), col, FALSE)
        n == Len(x)
        lo == ((n - 1) * qn) \div qd
    IN  IF n = 0 THEN NaN
        ELSE IF lo + 1 >= n \/ (n - 1) * qn = lo * qd THEN x[lo + 1][col]
        ELSE x[lo + 2][col]

\* Series.quantile(q) for q = qn/qd, linear interpolation between the two
\* nearest order statistics of the non-NaN values (NaN when there are none)
quantile(df, col, qn, qd) ==
    LET x == StableSort(SelectSeq(df, LAMBDA r : ~IsNaN(r[col])), col, FALSE)
        n == Len(x)
        lo == ((n - 1) * qn) \div qd
        frac == Rat((n - 1) * qn - lo * qd, qd)
    IN  IF n = 0 THEN NaN
        ELSE IF lo + 1 >= n THEN x[n][col]
        ELSE FAdd(x[lo + 1][col],
                  FMul(FSub(x[lo + 2][col], x[lo + 1][col]), frac))

---------------------------------------------------------------------------
(* the files: bounded sets of tables *)

MaxSuppliers == 6       \* rows of a supplier file whose amounts alone vary
MaxRichSuppliers == 2   \* rows of a supplier file whose other columns vary too
MaxCatRows == 2         \* rows of a sub-category file
MaxFactoryRows == 3     \* rows of a factory file
MaxTextLen == 3         \* characters of a cell that holds text
MaxTiered == 4          \* rows of a supplier file made for the tiering

Categories == {"c1", "c2"}
\* the sub-category of a category
SubOf(c) == IF c = "c1" THEN "s1" ELSE "s2"

SupplierRow(c, a, b, ga, gr) ==
    [id |-> 0, Category |-> c, Sub_Category |-> SubOf(c), amount_2024 |-> Num(a),
     budget_2025 |-> Num(b), growth_amount |-> ga, growth_rate |-> gr]

CategoryRow(c, sub, a, b, ga, gr) ==
    [id |-> 0, Category |-> c, Sub_category |-> sub, spend_2024 |-> Num(a),
     spend_2025 |-> Num(b), growth_amount |-> ga, growth_rate |-> gr]

\* the Business Unit of the total row of the factory file
TotalLabel == "total"

FactoryRow(bu, a, f) ==
    [id |-> 0, Business_Unit |-> bu, amount_2024 |-> Num(a), forecast_2025 |-> Num(f),
     growth_amount |-> Num(f - a), growth_rate |-> FMul(FDiv(Num(f - a), Num(a)), Num(100))]

\* a cell that read_csv could not read as a number: its characters
Text(s) == [k |-> "str", s |-> s]

\* read_csv numbers the rows 0, 1, 2, ... (the RangeIndex)
WithIndex(rows) == [i \in 1..Len(rows) |-> [rows[i] EXCEPT !.id = i - 1]]

SeqsUpTo(S, n) == UNION {[1..l -> S] : l \in 0..n}

\* amounts are non-negative numbers (the data model); the derived columns
\* the files ship (growth amount, growth rate) are whatever the file says
PlainSupplierRows == {SupplierRow("c1", a, a, Num(0), Num(0)) : a \in {0, 100, 200}}

\* the first two rows of the longer files
LeadingSuppliers ==
    <<SupplierRow("c1", 200, 200, Num(0), Num(0)), SupplierRow("c1", 100, 100, Num(0), Num(0))>>

RichSupplierRows ==
    {SupplierRow(c, a, 300, Num(IF agrees THEN 300 - a ELSE 50), Num(0)) :
        c \in Categories, a \in {0, 100}, agrees \in BOOLEAN}

\* the four suppliers A, B, C, D of the worked example
ExampleRecords ==
    <<SupplierRow("c1", 100, 100, Num(0), Num(0)), SupplierRow("c1", 200, 200, Num(0), Num(0)),
      SupplierRow("c2", 300, 300, Num(0), Num(0)), SupplierRow("c2", 400, 400, Num(0), Num(0))>>

SupplierFiles ==
    LET rows == SeqsUpTo(PlainSupplierRows, MaxSuppliers - 2)
    IN  rows \cup {LeadingSuppliers \o t : t \in rows}
            \cup SeqsUpTo(RichSupplierRows, MaxRichSuppliers) \cup {ExampleRecords}

\* rows whose derived columns agree with the spends, and one whose growth
\* amount column is not the difference of the spends
CategoryRows ==
    {CategoryRow("c1", "s1", 0, 0, Num(0), Num(0)),
     CategoryRow("c1", "s1", 200000, 0, Num(-200000), Num(-100))}
    \cup {CategoryRow(c, SubOf(c), 0, 50000, Num(50000), Inf) : c \in Categories}
    \cup {CategoryRow(c, SubOf(c), 200000, 50000, Num(-150000), Num(-75)) : c \in Categories}
    \cup {CategoryRow("c2", "s4", 200000, 50000, Num(150000), Num(-75))}

\* rows with a growth rate column of any value, at and around the minimum base
RatedCategoryRows ==
    {CategoryRow("c1", "s3", 0, 50000, Num(50000), Num(-50)),
     CategoryRow("c1", "s3", 100000, 50000, Num(-50000), Num(20))}
    \cup {CategoryRow("c1", "s3", 300000, 50000, Num(-250000), gr) :
            gr \in {Inf, Num(-100), Num(-50), Num(20), NaN}}

CategoryFiles ==
    SeqsUpTo(CategoryRows, MaxCatRows) \cup SeqsUpTo(RatedCategoryRows, MaxCatRows)

\* two categories whose shares of the total move between the years
QuadrantRows(c) ==
    {CategoryRow(c, SubOf(c), a, b, Num(b - a), FMul(FDiv(Num(b - a), Num(a)), Num(100))) :
        a \in {100000, 400000}, b \in {100000, 150000}}

QuadrantFiles == {<<r1, r2>> : r1 \in QuadrantRows("c1"), r2 \in QuadrantRows("c2")}

\* two sub-categories of one category whose spends stay, double, start or stop
GrowthChartRows(sub) ==
    {CategoryRow("c1", sub, a, b, Num(b - a), Num(0)) : a \in {0, 50000}, b \in {0, 50000, 100000}}

GrowthChartFiles == {<<r1, r2>> : r1 \in GrowthChartRows("s1"), r2 \in GrowthChartRows("s3")}

\* cells as the file spells them: digits, thousands separators, percent
\* signs and other characters
Chars == {"1", ",", "%", "x"}
Texts == {Text(t) : t \in UNION {[1..l -> Chars] : l \in 1..MaxTextLen}}

\* files whose growth amount column holds one cell of any spelling above a
\* cell that spells a number
TextSupplierFiles ==
    {<<SupplierRow("c1", 100, 100, t, Num(0)),
       SupplierRow("c1", 200, 200, Text(<<"2">>), Num(0))>> : t \in Texts}

TextCategoryFiles ==
    {<<CategoryRow("c1", "s1", 200000, 50000, t, Num(-75)),
       CategoryRow("c2", "s2", 200000, 50000, Text(<<"1", "2">>), Num(-75))>> : t \in Texts}

FactoryRows ==
    {FactoryRow("f1", 100, 150), FactoryRow("f2", 200, 100), FactoryRow(TotalLabel, 300, 250)}

FactoryFiles == SeqsUpTo(FactoryRows, MaxFactoryRows)

DefaultFactoryFile ==
    <<FactoryRow("f1", 100, 150), FactoryRow("f2", 200, 100), FactoryRow(TotalLabel, 300, 250)>>

\* supplier files for the quartile tiering: short files of few amounts, files
\* of 100 equally spaced amounts in rising and in falling order, and the
\* twelve suppliers 10, 10, 10, 10, 20, 20, 20, 20, 30, 30, 40, 50
TierRows == {SupplierRow("c1", a, a, Num(0), Num(0)) : a \in {10, 20, 30, 40}}

UniformRecords(start, step, rising) ==
    [i \in 1..100 |->
        LET a == start + step * ((IF rising THEN i ELSE 101 - i) - 1)
        IN  SupplierRow("c1", a, a, Num(0), Num(0))]

UniformFiles ==
    {UniformRecords(start, step, rising) :
        start \in {0, 1, 7}, step \in {1, 3}, rising \in BOOLEAN}

TwelveSuppliers ==
    LET amounts == <<10, 10, 10, 10, 20, 20, 20, 20, 30, 30, 40, 50>>
    IN  [i \in 1..12 |-> SupplierRow("c1", amounts[i], amounts[i], Num(0), Num(0))]

TieringFiles == SeqsUpTo(TierRows, MaxTiered) \cup UniformFiles \cup {TwelveSuppliers}

DefaultSupplierFile == ExampleRecords
DefaultCategoryFile ==
    <<CategoryRow("c1", "s1", 200000, 50000, Num(-150000), Num(-75)),
      CategoryRow("c2", "s2", 0, 50000, Num(50000), Inf)>>

\* the three files; unreadable names the file pd.read_csv cannot read, if any
FileSet(f, s, c) == [factory |-> f, supplier |-> s, category |-> c, unreadable |-> "none"]

\* the files a run may find: one file varies, the other two are fixed
Files ==
    {FileSet(DefaultFactoryFile, s, DefaultCategoryFile) :
        s \in SupplierFiles \cup TextSupplierFiles}
    \cup {FileSet(DefaultFactoryFile, DefaultSupplierFile, c) :
        c \in CategoryFiles \cup QuadrantFiles \cup GrowthChartFiles \cup TextCategoryFiles}
    \cup {FileSet(f, DefaultSupplierFile, DefaultCategoryFile) : f \in FactoryFiles}

TierFiles ==
    {FileSet(DefaultFactoryFile, s, DefaultCategoryFile) : s \in TieringFiles}

\* the keys of DATA_FILES in the order load_data reads the files
DATA_FILES == <<"factory_data", "supplier_data", "category_data">>

\* the files of a server that several sessions use: all three readable, or
\* one of them missing
SessionFiles ==
    LET files == FileSet(DefaultFactoryFile, DefaultSupplierFile,
                         <<CategoryRow("c1", "s1", 200000, 50000, Num(-150000), Num(-75))>>)
    IN  {files} \cup {[files EXCEPT !.unreadable = DATA_FILES[k]] : k \in 1..3}

---------------------------------------------------------------------------
(* load_data *)

Digit(c) == c \in {"0", "1", "2", "3", "4", "5", "6", "7", "8", "9"}

DigitValue(c) ==
    CASE c = "0" -> 0 [] c = "1" -> 1 [] c = "2" -> 2 [] c = "3" -> 3 [] c = "4" -> 4
      [] c = "5" -> 5 [] c = "6" -> 6 [] c = "7" -> 7 [] c = "8" -> 8 [] c = "9" -> 9

\* the number a string of digits spells
RECURSIVE Decimal(_)
Decimal(s) ==
    IF Len(s) = 0 THEN 0
    ELSE 10 * Decimal(SubSeq(s, 1, Len(s) - 1)) + DigitValue(s[Len(s)])

\* the numeric parser of read_csv and of pd.to_numeric on the characters
\* these files hold: a non-empty string of digits is its number
IsNumeral(s) == Len(s) > 0 /\ \A i \in 1..Len(s) : Digit(s[i])

\* pd.to_numeric(series, errors='coerce'): what is no number becomes NaN
to_numeric(series) ==
    [i \in 1..Len(series) |->
        IF series[i].k # "str" THEN series[i]
        ELSE IF IsNumeral(series[i].s) THEN Num(Decimal(series[i].s))
        ELSE NaN]

\* series.dtype == 'object': read_csv has left the column as text
is_object_dtype(series) == \E i \in 1..Len(series) : series[i].k = "str"

\* pd.read_csv: a column all of whose cells spell numbers becomes a number
\* column, any other column stays text
RECURSIVE read_csv(_, _)
read_csv(rows, columns) ==
    IF Len(columns) = 0 THEN WithIndex(rows)
    ELSE LET col == Head(columns)
             series == Column(rows, col)
             numeric == \A i \in 1..Len(series) :
                            series[i].k # "str" \/ IsNumeral(series[i].s)
         IN  read_csv(IF numeric THEN SetColumn(rows, col, to_numeric(series)) ELSE rows,
                      Tail(columns))

\* str.replace(',', ''): every comma goes
str_replace_comma(s) == SelectSeq(s, LAMBDA c : c # ",")

\* str.rstrip('%') that strips nothing
str_rstrip_percent_kept(s) == s

\* str.rstrip('%'): every percent sign at the end goes
RECURSIVE str_rstrip_percent(_)
str_rstrip_percent(s) ==
    IF Len(s) > 0 /\ s[Len(s)] = "%" THEN str_rstrip_percent(SubSeq(s, 1, Len(s) - 1))
    ELSE s

\* safe_numeric_convert that returns every column as it is
safe_numeric_convert_unconverted(series) == series

\* safe_numeric_convert: a text column is stripped of commas and trailing
\* percent signs and converted, any other column is returned as it is
safe_numeric_convert(series) ==
    IF is_object_dtype(series)
    THEN to_numeric([i \in 1..Len(series) |->
            IF series[i].k = "str"
            THEN Text(str_rstrip_percent(str_replace_comma(series[i].s)))
            ELSE series[i]])
    ELSE series

\* for col in columns: df[col] = safe_numeric_convert(df[col])
RECURSIVE convert_columns(_, _)
convert_columns(df, columns) ==
    IF Len(columns) = 0 THEN df
    ELSE convert_columns(
            SetColumn(df, Head(columns), safe_numeric_convert(Column(df, Head(columns)))),
            Tail(columns))

numeric_columns == <<"forecast_2025", "amount_2024", "growth_amount", "growth_rate">>
supplier_numeric_columns == <<"amount_2024", "budget_2025", "growth_amount", "growth_rate">>
category_numeric_columns == <<"spend_2024", "spend_2025", "growth_amount", "growth_rate">>

\* the three tables load_data returns for the files
load_data(files) ==
    [factory_data |->
        convert_columns(read_csv(files.factory, numeric_columns), numeric_columns),
     supplier_data |->
        convert_columns(read_csv(files.supplier, supplier_numeric_columns),
                        supplier_numeric_columns),
     category_data |->
        convert_columns(read_csv(files.category, category_numeric_columns),
                        category_numeric_columns)]

---------------------------------------------------------------------------
(* the figures of the tabs *)

TopN == 10              \* nlargest(10, ...) / nsmallest(10, ...)
TopK == 5               \* nlargest(5, ...) of the Top5 concentration
MinBase == 100000       \* minimum 2024 base of the growth rankings
Hundred == Num(100)
DependencyThreshold == Rat(1, 10)       \* the literal 0.1

\* the bars of the factory scale chart: one per row whose Business Unit is
\* not the total label, with the two amounts of the first row of that name
factory_bars(df) ==
    LET units == SelectSeq(Column(df, "Business_Unit"), LAMBDA factory : factory # TotalLabel)
    IN  [p \in 1..Len(units) |->
            LET first == SelectSeq(df, LAMBDA r : r.Business_Unit = units[p])[1]
            IN  [name |-> units[p], y |-> <<first.amount_2024, first.forecast_2025>>]]

\* growth_data that keeps every row
growth_data_with_total(df) == df

\* factory_data[factory_data['Business Unit'] != total label]
growth_data(df) == SelectSeq(df, LAMBDA r : r.Business_Unit # TotalLabel)

\* share_of_total with the largest amount as the denominator
share_of_largest(df, col) ==
    LET largest == ColSum(nlargest(df, 1, col), col)
    IN  [i \in 1..Len(df) |-> FMul(FDiv(df[i][col], largest), Hundred)]

\* df[col] / df[col].sum() * 100, row by row
share_of_total(df, col) ==
    LET total == ColSum(df, col)
    IN  [i \in 1..Len(df) |-> FMul(FDiv(df[i][col], total), Hundred)]

\* concentration_ratio over the k smallest rows
concentration_ratio_of_smallest(df, col, k) ==
    FMul(FDiv(ColSum(nsmallest(df, k, col), col), ColSum(df, col)), Hundred)

\* df.nlargest(k, col)[col].sum() / df[col].sum() * 100
concentration_ratio(df, col, k) ==
    FMul(FDiv(ColSum(nlargest(df, k, col), col), ColSum(df, col)), Hundred)

top10_share(df) == concentration_ratio(df, "amount_2024", TopN)
top5_concentration(df) == concentration_ratio(df, "amount_2024", TopK)

\* high_dependency that also counts a share equal to the threshold
high_dependency_at_least(df) ==
    LET total == ColSum(df, "amount_2024")
    IN  Len(SelectSeq(df, LAMBDA r : FLe(DependencyThreshold, FDiv(r.amount_2024, total))))

\* len(df[df[col] / df[col].sum() > 0.1])
high_dependency(df) ==
    LET total == ColSum(df, "amount_2024")
    IN  Len(SelectSeq(df, LAMBDA r : FGt(FDiv(r.amount_2024, total), DependencyThreshold)))

\* pd.api.types.is_numeric_dtype: load_data has turned the column into
\* floats, an unparsable cell into NaN
is_numeric_dtype(df, col) == \A i \in 1..Len(df) : df[i][col].k \in {"num", "inf", "nan"}

\* df.dropna(subset=[col])
dropna(df, col) == SelectSeq(df, LAMBDA r : ~IsNaN(r[col]))

top_10_growth_suppliers(df) == nlargest(df, TopN, "growth_amount")
top_10_growth_subcategories(df) == nlargest(df, TopN, "growth_amount")

\* Series.round(1): to one decimal, a tie to the even digit
round1(x) ==
    IF x.k # "num" THEN x
    ELSE LET n == x.n * 10
             q == n \div x.d
             r == n - q * x.d
             up == 2 * r > x.d \/ (2 * r = x.d /\ q % 2 = 1)
         IN  Rat(IF up THEN q + 1 ELSE q, 10)

\* groupby sorts the group keys
CategoryOrder == <<"c1", "c2">>

\* category_data.groupby('Category').agg(sum of both spends and of the growth
\* amount column).reset_index(), then the growth rate of the sums
category_summary(df) ==
    LET present == SelectSeq(CategoryOrder, LAMBDA c : \E i \in 1..Len(df) : df[i].Category = c)
    IN  [p \in 1..Len(present) |->
            LET g == SelectSeq(df, LAMBDA r : r.Category = present[p])
                ga == ColSum(g, "growth_amount")
                s24 == ColSum(g, "spend_2024")
            IN  [id |-> p - 1, Category |-> present[p], spend_2024 |-> s24,
                 spend_2025 |-> ColSum(g, "spend_2025"), growth_amount |-> ga,
                 growth_rate |-> round1(FMul(FDiv(ga, s24), Hundred))]]

\* valid_growth_data without the test for -100
valid_growth_data_keeping_stopped(df) ==
    SelectSeq(df, LAMBDA r : /\ FNe(r.growth_rate, Inf)
                             /\ FGt(r.spend_2024, Num(MinBase)))

\* rows whose growth rate column is neither inf nor -100 and whose 2024 spend
\* is above the minimum base
valid_growth_data(df) ==
    SelectSeq(df, LAMBDA r : /\ FNe(r.growth_rate, Inf)
                          /\ FNe(r.growth_rate, Num(-100))
                          /\ FGt(r.spend_2024, Num(MinBase)))

top_growth(df) == nlargest(valid_growth_data(df), TopN, "growth_rate")
top_decline(df) == nsmallest(valid_growth_data(df), TopN, "growth_rate")

\* a copy of df with the column purchase_share = df[col] / df[col].sum() * 100
WithShare(df, col) ==
    LET share == share_of_total(df, col)
    IN  [i \in 1..Len(df) |-> [purchase_share |-> share[i]] @@ df[i]]

category_analysis_2024(df) == WithShare(category_summary(df), "spend_2024")
category_analysis_2025(df) == WithShare(category_summary(df), "spend_2025")

\* Series.mean(): the mean of the values that are not NaN
mean(df, col) ==
    FDiv(ColSum(df, col), Num(Len(SelectSeq(df, LAMBDA r : ~IsNaN(r[col])))))

\* sort_values_descending that sorts from the smallest to the largest
sort_values_ascending(df, col) ==
    StableSort(SelectSeq(df, LAMBDA r : ~IsNaN(r[col])), col, FALSE)
        \o SelectSeq(df, LAMBDA r : IsNaN(r[col]))

\* sort_values(col, ascending=False): NaN keys last
sort_values_descending(df, col) ==
    StableSort(SelectSeq(df, LAMBDA r : ~IsNaN(r[col])), col, TRUE)
        \o SelectSeq(df, LAMBDA r : IsNaN(r[col]))

\* the shares of both years and their difference per category, largest
\* difference first
category_changes(df) ==
    LET a24 == category_analysis_2024(df)
        a25 == category_analysis_2025(df)
        rows == [p \in 1..Len(a24) |->
                    [id |-> a24[p].id, Category |-> a24[p].Category,
                     share_2024 |-> a24[p].purchase_share,
                     share_2025 |-> a25[p].purchase_share,
                     share_change |-> FSub(a25[p].purchase_share, a24[p].purchase_share),
                     spend_2024 |-> a24[p].spend_2024, spend_2025 |-> a24[p].spend_2025,
                     growth_rate |-> a24[p].growth_rate]]
    IN  sort_values_descending(rows, "share_change")

\* categories below the mean share of 2024 and above the mean share of 2025
new_important(changes) ==
    Column(SelectSeq(changes, LAMBDA r :
               /\ FLt(r.share_2024, mean(changes, "share_2024"))
               /\ FGt(r.share_2025, mean(changes, "share_2025"))), "Category")

\* categories above the mean share of 2024 and below the mean share of 2025
declining(changes) ==
    Column(SelectSeq(changes, LAMBDA r :
               /\ FGt(r.share_2024, mean(changes, "share_2024"))
               /\ FLt(r.share_2025, mean(changes, "share_2025"))), "Category")

\* supplier_data[supplier_data['Category'] == selected_category] and its shares
category_suppliers(df, selected_category) ==
    WithShare(SelectSeq(df, LAMBDA r : r.Category = selected_category), "amount_2024")

\* growth_rate without its first branch: a row of two zero spends falls
\* through to the test of spend_2025
growth_rate_without_zero_case(row) ==
    IF FEq(row.spend_2024, Num(0)) /\ FGt(row.spend_2025, Num(0)) THEN Inf
    ELSE IF FEq(row.spend_2025, Num(0)) THEN Num(-100)
    ELSE FMul(FDiv(row.growth_amount, row.spend_2024), Hundred)

\* the growth rate of one sub-category row from its spends and its growth
\* amount (the lambda of subcategory_data.apply)
growth_rate(row) ==
    IF FEq(row.spend_2024, Num(0)) /\ FEq(row.spend_2025, Num(0)) THEN Num(0)
    ELSE IF FEq(row.spend_2024, Num(0)) /\ FGt(row.spend_2025, Num(0)) THEN Inf
    ELSE IF FEq(row.spend_2025, Num(0)) THEN Num(-100)
    ELSE FMul(FDiv(row.growth_amount, row.spend_2024), Hundred)

growth_amount(row) == FSub(row.spend_2025, row.spend_2024)

\* category_data.copy() with both growth columns computed anew
subcategory_data(df) ==
    [i \in 1..Len(df) |->
        LET r == [df[i] EXCEPT !.growth_amount = growth_amount(df[i])]
        IN  [r EXCEPT !.growth_rate = growth_rate(r)]]

\* groupby sorts the keys: the (Category, Sub Category) pairs in order
SubCategoryOrder == <<"s1", "s2">>
GroupKeys ==
    [k \in 1..(Len(CategoryOrder) * Len(SubCategoryOrder)) |->
        <<CategoryOrder[((k - 1) \div Len(SubCategoryOrder)) + 1],
          SubCategoryOrder[((k - 1) % Len(SubCategoryOrder)) + 1]>>]

\* supplier_data.groupby(['Category', 'Sub Category'])[2025 budget].sum()
budget_by_subcategory(df) ==
    LET present == SelectSeq(GroupKeys, LAMBDA key :
                       \E i \in 1..Len(df) : df[i].Category = key[1] /\ df[i].Sub_Category = key[2])
    IN  [p \in 1..Len(present) |->
            [id |-> p - 1, Category |-> present[p][1], Sub_Category |-> present[p][2],
             budget_2025 |->
                 ColSum(SelectSeq(df, LAMBDA r : r.Category = present[p][1]
                                                  /\ r.Sub_Category = present[p][2]),
                        "budget_2025")]]

\* subcat_spend_2025 that keeps the sub-categories without budget
subcat_spend_2025_unfiltered(df) == budget_by_subcategory(df)

\* the sub-categories whose summed 2025 budget is above 0
subcat_spend_2025(df) ==
    SelectSeq(budget_by_subcategory(df), LAMBDA r : FGt(r.budget_2025, Num(0)))

\* the suppliers of a category and sub-category that have a 2025 budget
subcat_suppliers_detail(df, category, selected_subcat) ==
    SelectSeq(df, LAMBDA r : /\ r.Category = category
                             /\ r.Sub_Category = selected_subcat
                             /\ FGt(r.budget_2025, Num(0)))

\* the cost-reduction guide: per category of subcat_spend_2025 its
\* sub-categories by budget, largest first, each with the supplier detail
\* its selection shows
cost_guide(df) ==
    LET spend == subcat_spend_2025(df)
        all_categories == SelectSeq(CategoryOrder, LAMBDA c :
                              \E p \in 1..Len(spend) : spend[p].Category = c)
        options(c) ==
            sort_values_descending(SelectSeq(spend, LAMBDA r : r.Category = c), "budget_2025")
        Entry(c) ==
            LET category_subcats_data == options(c)
            IN  [Category |-> c,
                 options |-> [p \in 1..Len(category_subcats_data) |->
                     [Sub_Category |-> category_subcats_data[p].Sub_Category,
                      budget_2025 |-> category_subcats_data[p].budget_2025,
                      subcat_suppliers_detail |->
                          subcat_suppliers_detail(df, c, category_subcats_data[p].Sub_Category)]]]
    IN  [q \in 1..Len(all_categories) |-> Entry(all_categories[q])]

\* subcategory_data[subcategory_data['Category'] == selected_category]
category_detail(sub, selected_category) ==
    SelectSeq(sub, LAMBDA r : r.Category = selected_category)

\* the label of a bar of the growth-rate chart: the two sentinel words, or
\* the rate with one decimal
growth_text(x) ==
    IF FEq(x, Inf) THEN [label |-> "new", value |-> NaN]
    ELSE IF FEq(x, Num(-100)) THEN [label |-> "stopped", value |-> NaN]
    ELSE [label |-> "percent", value |-> round1(x)]

\* the height of a bar of the growth-rate chart
growth_bar_y(x) ==
    IF FEq(x, Inf) THEN Num(100)
    ELSE IF FEq(x, Num(-100)) THEN Num(-100)
    ELSE x

\* the bars of the growth-rate chart of a category: sub-category, height,
\* label, and the growth rate they are drawn from
growth_bars(detail) ==
    [p \in 1..Len(detail) |->
        [x |-> detail[p].Sub_category, y |-> growth_bar_y(detail[p].growth_rate),
         text |-> growth_text(detail[p].growth_rate), growth_rate |-> detail[p].growth_rate]]

\* the growth-rate chart for every option of the category selectbox
\* (sorted(subcategory_data['Category'].unique()))
growth_chart(sub) ==
    LET options == SelectSeq(CategoryOrder, LAMBDA c : \E i \in 1..Len(sub) : sub[i].Category = c)
    IN  [p \in 1..Len(options) |->
            [Category |-> options[p], bars |-> growth_bars(category_detail(sub, options[p]))]]

\* valid_growth without the test for -100
valid_growth_keeping_stopped(detail) ==
    Column(SelectSeq(detail, LAMBDA r : FNe(r.growth_rate, Inf)), "growth_rate")

\* the growth rates of the analysis summary: neither inf nor -100
valid_growth(detail) ==
    Column(SelectSeq(detail, LAMBDA r : FNe(r.growth_rate, Inf) /\ FNe(r.growth_rate, Num(-100))),
           "growth_rate")

new_items(detail) == SelectSeq(detail, LAMBDA r : FEq(r.growth_rate, Inf))
stopped_items(detail) == SelectSeq(detail, LAMBDA r : FEq(r.growth_rate, Num(-100)))

\* the analysis summary for every option of the category selectbox
growth_summary(sub) ==
    LET options == SelectSeq(CategoryOrder, LAMBDA c : \E i \in 1..Len(sub) : sub[i].Category = c)
    IN  [p \in 1..Len(options) |->
            LET detail == category_detail(sub, options[p])
            IN  [Category |-> options[p], valid_growth |-> valid_growth(detail),
                 new_items |-> new_items(detail), stopped_items |-> stopped_items(detail)]]

MatrixRows == 50        \* head(50) of the supplier strategy matrix

\* DataFrame.head(n): the first n rows in the order of the table
head(df, n) == SubSeq(df, 1, IF Len(df) < n THEN Len(df) ELSE n)

\* the suppliers plotted in the strategy matrix
strategy_matrix(df) == head(df, MatrixRows)

\* supplier_data.nlargest(10, '2024合计入库金额')
top10_2024(df) == nlargest(df, TopN, "amount_2024")

\* the five bin edges of pd.qcut(q=4): the quantiles 0, 1/4, 1/2, 3/4, 1
quartile_edges(df, col) ==
    <<quantile(df, col, 0, 4), quantile(df, col, 1, 4), quantile(df, col, 2, 4),
      quantile(df, col, 3, 4), quantile(df, col, 4, 4)>>

\* qcut raises ValueError ("Bin edges must be unique") unless the five edges
\* are five different numbers
qcut_raises(df, col) ==
    LET bins == quartile_edges(df, col)
    IN  \E i, j \in 1..5 : i < j /\ ~FLt(bins[i], bins[j])

\* the labels with A for the lowest quartile
TierLabels_A_lowest == <<"A", "B", "C", "D">>

\* labels=['D级', 'C级', 'B级', 'A级']: D for the lowest quartile
TierLabels == <<"D", "C", "B", "A">>

\* qcut_label with bins closed on the left: [edge i, edge i+1), the highest
\* edge in the last bin
qcut_label_left_closed(bins, x) ==
    IF IsNaN(x) THEN "NaN"
    ELSE TierLabels[Cardinality({j \in 1..4 : FLe(bins[j], x)})]

\* the label qcut gives x: bin i is (edge i, edge i+1], the lowest edge
\* belongs to the first bin, NaN gets no label
qcut_label(bins, x) ==
    IF IsNaN(x) THEN "NaN"
    ELSE LET below == Cardinality({j \in 1..5 : FLt(bins[j], x)})
         IN  TierLabels[IF below = 0 THEN 1 ELSE below]

\* supplier_data.copy() with the share of the 2024 total and the tier
supplier_analysis(df) ==
    LET shared == WithShare(df, "amount_2024")
        bins == quartile_edges(df, "amount_2024")
    IN  [i \in 1..Len(df) |-> [tier |-> qcut_label(bins, df[i].amount_2024)] @@ shared[i]]

\* groupby(tier) sum of the amounts, as a percentage of the sum of those sums
supplier_level_amount_pct(analysis) ==
    LET amount(p) == ColSum(SelectSeq(analysis, LAMBDA r : r.tier = TierLabels[p]), "amount_2024")
        sums == [p \in 1..4 |-> [amount_2024 |-> amount(p)]]
    IN  share_of_total(sums, "amount_2024")

\* supplier_data[supplier_data['Sub Category'] == selected_subcategory] and
\* its shares of both years
supplier_detail(df, selected_subcategory) ==
    LET d == SelectSeq(df, LAMBDA r : r.Sub_Category = selected_subcategory)
        share_2024 == share_of_total(d, "amount_2024")
        share_2025 == share_of_total(d, "budget_2025")
    IN  [i \in 1..Len(d) |->
            [share_2024 |-> share_2024[i], share_2025 |-> share_2025[i]] @@ d[i]]

\* Series.unique() as a set
Unique(df, col) == {df[i][col] : i \in 1..Len(df)}

---------------------------------------------------------------------------
(* one run of the script *)

NotRun == [run |-> FALSE]

Sessions == {"s1", "s2"}

ttl == 60               \* @st.cache_data(ttl=60)
MaxClock == 60          \* the clock stops here

\* a key that st.session_state does not hold is "" (a text) or not present
\* (the time)
NoTime == [present |-> FALSE, at |-> 0]
Time(t) == [present |-> TRUE, at |-> t]
FreshSession == [last_data_update |-> NoTime, data_load_status |-> "", data_load_error |-> ""]

NoCache == [present |-> FALSE, value |-> <<>>, stored_at |-> 0]
NoSidebar == [info |-> NoTime, success |-> FALSE, error |-> ""]

\* st.cache_data returns the stored value of load_data while it is younger
\* than ttl
cache_hit(entry, t) == entry.present /\ t - entry.stored_at < ttl

\* the two assignments after the three reads
session_after_read(state, t) ==
    [state EXCEPT !.last_data_update = Time(t), !.data_load_status = "success"]

\* the except branch that leaves the status as it was
session_after_error_status_kept(state, message) ==
    [state EXCEPT !.data_load_error = message]

\* the except branch of load_data
session_after_error(state, message) ==
    [state EXCEPT !.data_load_status = "error", !.data_load_error = message]

\* str(e) of the exception pd.read_csv raises for a file it cannot read
read_error(file) == "FileNotFoundError: " \o file

\* the sidebar after load_data has returned: the update time if the session
\* has one, the success message if its status is 'success'
sidebar_after_load(state) ==
    [info |-> state.last_data_update, success |-> state.data_load_status = "success",
     error |-> ""]

\* the sidebar after load_data has raised
sidebar_after_error(message) == [info |-> NoTime, success |-> FALSE, error |-> message]

\* the first script run of session s1 on a server that has just started,
\* with the files as they are on disk
InitWith(files) ==
    /\ pc = "load"
    /\ csv \in files
    /\ factory_data = <<>>
    /\ supplier_data = <<>>
    /\ category_data = <<>>
    /\ tab1 = NotRun
    /\ tab_manager = NotRun
    /\ tab2 = NotRun
    /\ tab3 = NotRun
    /\ tab4 = NotRun
    /\ tab5 = NotRun
    /\ exception = ""
    /\ now = 0
    /\ cache = NoCache
    /\ session_state = [s \in Sessions |-> FreshSession]
    /\ rerun = {}
    /\ run = [session |-> "s1", after_refresh |-> FALSE, load |-> "pending"]
    /\ sidebar = NoSidebar

Init == InitWith(Files)

\* a run over a supplier file made for the tiering
TierInit == InitWith(TierFiles)

\* a server with several sessions
SessionInit == InitWith(SessionFiles)

\* load_data() and its call site.  A cached value younger than ttl is
\* returned without running the function body.  Otherwise the three files are
\* read: when one cannot be read the except branch records the error, raises
\* again, and the call site shows the error and stops the run; when all are
\* read the time and the status are recorded, the number columns converted,
\* the result stored in the cache and the sidebar written.
LoadData ==
    /\ pc = "load"
    /\ LET state == session_state[run.session]
       IN  IF cache_hit(cache, now)
           THEN /\ factory_data' = cache.value.factory_data
                /\ supplier_data' = cache.value.supplier_data
                /\ category_data' = cache.value.category_data
                /\ run' = [run EXCEPT !.load = "cache"]
                /\ sidebar' = sidebar_after_load(state)
                /\ pc' = "tab1"
                /\ UNCHANGED <<cache, session_state, exception>>
           ELSE IF csv.unreadable # "none"
           THEN /\ session_state' =
                    [session_state EXCEPT ![run.session] =
                        session_after_error(state, read_error(csv.unreadable))]
                /\ run' = [run EXCEPT !.load = "raised"]
                /\ sidebar' = sidebar_after_error(read_error(csv.unreadable))
                /\ exception' = "FileNotFoundError"
                /\ pc' = "stopped"
                /\ UNCHANGED <<cache, factory_data, supplier_data, category_data>>
           ELSE /\ factory_data' = load_data(csv).factory_data
                /\ supplier_data' = load_data(csv).supplier_data
                /\ category_data' = load_data(csv).category_data
                /\ session_state' =
                    [session_state EXCEPT ![run.session] = session_after_read(state, now)]
                /\ cache' = [present |-> TRUE, value |-> load_data(csv), stored_at |-> now]
                /\ run' = [run EXCEPT !.load = "read"]
                /\ sidebar' = sidebar_after_load(session_after_read(state, now))
                /\ pc' = "tab1"
                /\ UNCHANGED exception
    /\ UNCHANGED <<csv, tab1, tab_manager, tab2, tab3, tab4, tab5, now, rerun>>

\* with tab1: the supplier figures of the strategic insight text (top10 and
\* top5 are the frames nlargest returns inside the two ratios)
Tab1 ==
    /\ pc = "tab1"
    /\ tab1' = [run |-> TRUE,
                factory_bars |-> factory_bars(factory_data),
                growth_data |-> growth_data(factory_data),
                top10 |-> nlargest(supplier_data, TopN, "amount_2024"),
                top10_share |-> top10_share(supplier_data),
                top5 |-> nlargest(supplier_data, TopK, "amount_2024"),
                top5_concentration |-> top5_concentration(supplier_data),
                high_dependency |-> high_dependency(supplier_data)]
    /\ pc' = "tab_manager"
    /\ UNCHANGED <<csv, factory_data, supplier_data, category_data, tab_manager, tab2, tab3, tab4, tab5, exception>>
    /\ UNCHANGED session_vars

\* with tab_manager: a growth amount column that is not numeric is converted
\* and its unconvertible rows are dropped in place; then the two Top 10 by
\* growth amount and the 2025 cost-reduction guide
TabManager ==
    /\ pc = "tab_manager"
    /\ LET Coerced(df) == SetColumn(df, "growth_amount",
                                     to_numeric(Column(df, "growth_amount")))
           suppliers == IF ~is_numeric_dtype(supplier_data, "growth_amount")
                        THEN dropna(Coerced(supplier_data), "growth_amount")
                        ELSE supplier_data
           categories == IF ~is_numeric_dtype(category_data, "growth_amount")
                         THEN dropna(Coerced(category_data), "growth_amount")
                         ELSE category_data
       IN  /\ supplier_data' = suppliers
           /\ category_data' = categories
           /\ tab_manager' = [run |-> TRUE,
                 top_10_growth_suppliers |-> top_10_growth_suppliers(suppliers),
                 top_10_growth_subcategories |-> top_10_growth_subcategories(categories),
                 cost_guide |-> cost_guide(suppliers)]
    /\ pc' = "tab2"
    /\ UNCHANGED <<csv, factory_data, tab1, tab2, tab3, tab4, tab5, exception>>
    /\ UNCHANGED session_vars

\* with tab2: category summary, the two growth rankings, the category shares,
\* the suppliers of the category picked in the selectbox, the sub-category
\* change analysis.  category_changes.iloc[0] raises IndexError when the
\* category file has no row.
Tab2 ==
    /\ pc = "tab2"
    /\ IF Len(category_data) = 0
       THEN /\ exception' = "IndexError"
            /\ pc' = "stopped"
            /\ UNCHANGED tab2
       ELSE /\ \E selected_category \in Unique(category_summary(category_data), "Category") :
                tab2' = [run |-> TRUE,
                         category_summary |-> category_summary(category_data),
                         valid_growth_data |-> valid_growth_data(category_data),
                         top_growth |-> top_growth(category_data),
                         top_decline |-> top_decline(category_data),
                         category_analysis_2024 |-> category_analysis_2024(category_data),
                         category_analysis_2025 |-> category_analysis_2025(category_data),
                         category_changes |-> category_changes(category_data),
                         up_cat |-> category_changes(category_data)[1],
                         down_cat |-> category_changes(category_data)
                                          [Len(category_changes(category_data))],
                         new_important |-> new_important(category_changes(category_data)),
                         declining |-> declining(category_changes(category_data)),
                         selected_category |-> selected_category,
                         category_suppliers |->
                             category_suppliers(supplier_data, selected_category),
                         subcategory_data |-> subcategory_data(category_data),
                         growth_chart |-> growth_chart(subcategory_data(category_data)),
                         growth_summary |-> growth_summary(subcategory_data(category_data))]
            /\ pc' = "tab3"
            /\ UNCHANGED exception
    /\ UNCHANGED <<csv, factory_data, supplier_data, category_data, tab1, tab_manager, tab3, tab4, tab5>>
    /\ UNCHANGED session_vars

\* with tab3: the strategy matrix, the 2024 Top 10 and the supplier structure
\* analysis; the share column is computed first, then pd.qcut raises
\* ValueError when the quartile edges are not unique
Tab3 ==
    /\ pc = "tab3"
    /\ IF qcut_raises(supplier_data, "amount_2024")
       THEN /\ exception' = "ValueError"
            /\ pc' = "stopped"
            /\ tab3' = [run |-> TRUE, qcut_ok |-> FALSE,
                        strategy_matrix |-> strategy_matrix(supplier_data),
                        top10_2024 |-> top10_2024(supplier_data),
                        purchase_share |-> share_of_total(supplier_data, "amount_2024")]
       ELSE /\ tab3' = [run |-> TRUE, qcut_ok |-> TRUE,
                        strategy_matrix |-> strategy_matrix(supplier_data),
                        top10_2024 |-> top10_2024(supplier_data),
                        purchase_share |-> share_of_total(supplier_data, "amount_2024"),
                        supplier_analysis |-> supplier_analysis(supplier_data),
                        supplier_level_amount_pct |->
                            supplier_level_amount_pct(supplier_analysis(supplier_data))]
            /\ pc' = "tab4"
            /\ UNCHANGED exception
    /\ UNCHANGED <<csv, factory_data, supplier_data, category_data, tab1, tab_manager, tab2, tab4, tab5>>
    /\ UNCHANGED session_vars

\* with tab4: the risk indicators
Tab4 ==
    /\ pc = "tab4"
    /\ tab4' = [run |-> TRUE,
                high_dependency |-> high_dependency(supplier_data),
                top5 |-> nlargest(supplier_data, TopK, "amount_2024"),
                top5_concentration |-> top5_concentration(supplier_data)]
    /\ pc' = "tab5"
    /\ UNCHANGED <<csv, factory_data, supplier_data, category_data, tab1, tab_manager, tab2, tab3, tab5, exception>>
    /\ UNCHANGED session_vars

\* with tab5: the category summary again, the sub-categories of the picked
\* category, the suppliers of the picked sub-category
Tab5 ==
    /\ pc = "tab5"
    /\ \E selected_category \in Unique(category_summary(category_data), "Category") :
       \E selected_subcategory \in
            Unique(SelectSeq(category_data, LAMBDA r : r.Category = selected_category),
                   "Sub_category") :
          tab5' = [run |-> TRUE,
                   category_summary |-> category_summary(category_data),
                   selected_category |-> selected_category,
                   selected_subcategory |-> selected_subcategory,
                   supplier_detail |-> supplier_detail(supplier_data, selected_subcategory)]
    /\ pc' = "done"
    /\ UNCHANGED <<csv, factory_data, supplier_data, category_data, tab1, tab_manager, tab2, tab3, tab4, exception>>
    /\ UNCHANGED session_vars

Next == LoadData \/ Tab1 \/ TabManager \/ Tab2 \/ Tab3 \/ Tab4 \/ Tab5

Spec == Init /\ [][Next]_vars

TierSpec == TierInit /\ [][Next]_vars

\* the script runs of the sessions follow each other: a run shares nothing
\* with the runs of other sessions but the cache of load_data, which it
\* touches in load_data alone
Finished == pc \in {"done", "stopped"}

\* a session's script runs from the top: its first visit, a widget it has
\* changed, or the rerun it has asked for
StartRun(s) ==
    /\ Finished
    /\ pc' = "load"
    /\ factory_data' = <<>>
    /\ supplier_data' = <<>>
    /\ category_data' = <<>>
    /\ tab1' = NotRun
    /\ tab_manager' = NotRun
    /\ tab2' = NotRun
    /\ tab3' = NotRun
    /\ tab4' = NotRun
    /\ tab5' = NotRun
    /\ exception' = ""
    /\ run' = [session |-> s, after_refresh |-> s \in rerun, load |-> "pending"]
    /\ rerun' = rerun \ {s}
    /\ sidebar' = NoSidebar
    /\ UNCHANGED <<csv, now, cache, session_state>>

\* the refresh button of session s: the run in which the button is pressed
\* clears the cache of every cached function and asks for a rerun
Refresh(s) ==
    /\ Finished
    /\ cache' = NoCache
    /\ rerun' = rerun \cup {s}
    /\ UNCHANGED <<pc, csv, factory_data, supplier_data, category_data, tab1, tab_manager,
                   tab2, tab3, tab4, tab5, exception, now, session_state, run, sidebar>>

\* time passes between two runs: as long as a cached value lives
Tick ==
    /\ Finished
    /\ now + ttl <= MaxClock
    /\ now' = now + ttl
    /\ UNCHANGED <<pc, csv, factory_data, supplier_data, category_data, tab1, tab_manager,
                   tab2, tab3, tab4, tab5, exception, cache, session_state, rerun, run,
                   sidebar>>

\* the files on disk change between two runs: one goes missing or comes back
WriteFiles ==
    /\ Finished
    /\ csv' \in SessionFiles \ {csv}
    /\ UNCHANGED <<pc, factory_data, supplier_data, category_data, tab1, tab_manager, tab2,
                   tab3, tab4, tab5, exception, now, cache, session_state, rerun, run,
                   sidebar>>

SessionNext ==
    \/ Next
    \/ \E s \in Sessions : StartRun(s) \/ Refresh(s)
    \/ Tick
    \/ WriteFiles

SessionSpec == SessionInit /\ [][SessionNext]_vars

---------------------------------------------------------------------------
(* The share test of high_dependency in the arithmetic of the machine.     *)
(* Above, a share is the exact quotient.  Here an amount is the float64    *)
(* that read_csv parses, the total is the float64 that Series.sum adds up, *)
(* and every operation rounds its exact result to the nearest float64,     *)
(* ties to even.  A float64 is [m, e] with value m * 2^e, the mantissa m   *)
(* a natural number of 53 bits kept in two limbs <<high, low>>; zero has   *)
(* m = <<0, 0>>.  Only non-negative finite values occur.                   *)

Limb == 2^28

Big(high, low) == <<high + low \div Limb, low % Limb>>
BigZero == <<0, 0>>
BigOne == <<0, 1>>
BigPow2(k) == <<2^(k - 28), 0>>
BigAdd(a, b) == Big(a[1] + b[1], a[2] + b[2])
BigSub(a, b) ==
    IF a[2] >= b[2] THEN <<a[1] - b[1], a[2] - b[2]>>
                    ELSE <<a[1] - b[1] - 1, a[2] + Limb - b[2]>>
BigLess(a, b) == a[1] < b[1] \/ (a[1] = b[1] /\ a[2] < b[2])
BigHalf(a) == <<a[1] \div 2, (a[2] + (a[1] % 2) * Limb) \div 2>>
BigOdd(a) == a[2] % 2 = 1

Float64(m, e) == [m |-> m, e |-> e]
Float64Zero == Float64(BigZero, 0)
Float64Inf == [m |-> BigZero, e |-> 0, special |-> "inf"]
Float64NaN == [m |-> BigZero, e |-> 0, special |-> "nan"]
IsFinite64(x) == DOMAIN x = {"m", "e"}

\* m * 2^e with m brought to 55 bits: doubled while shorter, halved while
\* longer, the bits halved away remembered in inexact
RECURSIVE ToGuardBits(_)
ToGuardBits(x) ==
    IF BigLess(x.m, BigPow2(54))
    THEN ToGuardBits([m |-> BigAdd(x.m, x.m), e |-> x.e - 1, inexact |-> x.inexact])
    ELSE IF BigLess(x.m, BigPow2(55)) THEN x
    ELSE ToGuardBits([m |-> BigHalf(x.m), e |-> x.e + 1,
                      inexact |-> x.inexact \/ BigOdd(x.m)])

\* the float64 nearest to (m + f) * 2^e, where 0 <= f < 1 and f > 0 exactly
\* if inexact: round to nearest, ties to even
float64_round(m, e, inexact) ==
    LET g == ToGuardBits([m |-> m, e |-> e, inexact |-> inexact])
        kept == BigHalf(BigHalf(g.m))
        rest == g.m[2] % 4                 \* the two bits below the mantissa
        above_half == rest = 3 \/ (rest = 2 /\ g.inexact)
        half == rest = 2 /\ ~g.inexact
        up == above_half \/ (half /\ BigOdd(kept))
        r == IF up THEN BigAdd(kept, BigOne) ELSE kept
    IN  IF r = BigPow2(53) THEN Float64(BigPow2(52), g.e + 3) ELSE Float64(r, g.e + 2)

\* the float64 of a natural number below 2^28
float64_from_int(n) == IF n = 0 THEN Float64Zero ELSE float64_round(Big(0, n), 0, FALSE)

\* m shifted right by d bits
RECURSIVE ShiftRight(_, _)
ShiftRight(x, d) ==
    IF d = 0 \/ x.m = BigZero THEN x
    ELSE ShiftRight([m |-> BigHalf(x.m), inexact |-> x.inexact \/ BigOdd(x.m)], d - 1)

\* x + y
float64_add(x, y) ==
    IF x.m = BigZero THEN y
    ELSE IF y.m = BigZero THEN x
    ELSE LET big == IF x.e >= y.e THEN x ELSE y
             small == IF x.e >= y.e THEN y ELSE x
             a == Big(8 * big.m[1], 8 * big.m[2])
             b == ShiftRight([m |-> Big(8 * small.m[1], 8 * small.m[2]), inexact |-> FALSE],
                             big.e - small.e)
         IN  float64_round(BigAdd(a, b.m), big.e - 3, b.inexact)

\* the first k bits of the quotient r / y by long division
RECURSIVE LongDivision(_, _, _)
LongDivision(x, y, k) ==
    IF k = 0 THEN [q |-> x.q, inexact |-> x.r # BigZero]
    ELSE IF BigLess(x.r, y)
    THEN LongDivision([r |-> BigAdd(x.r, x.r), q |-> BigAdd(x.q, x.q)], y, k - 1)
    ELSE LET rest == BigSub(x.r, y)
         IN  LongDivision([r |-> BigAdd(rest, rest),
                           q |-> BigAdd(BigAdd(x.q, x.q), BigOne)], y, k - 1)

\* x / y
float64_div(x, y) ==
    IF y.m = BigZero THEN (IF x.m = BigZero THEN Float64NaN ELSE Float64Inf)
    ELSE IF x.m = BigZero THEN Float64Zero
    ELSE LET d == LongDivision([r |-> x.m, q |-> BigZero], y.m, 56)
         IN  float64_round(d.q, x.e - y.e - 55, d.inexact)

\* x > y for a finite y
float64_gt(x, y) ==
    IF ~IsFinite64(x) THEN x.special = "inf"
    ELSE IF x.m = BigZero THEN FALSE
    ELSE IF y.m = BigZero THEN TRUE
    ELSE IF x.e # y.e THEN x.e > y.e
    ELSE BigLess(y.m, x.m)

\* the literal 0.1
Tenth64 == float64_div(float64_from_int(1), float64_from_int(10))

\* read_csv of an amount written with two decimals, given in hundredths:
\* the parser collects the digits in a float64 and divides by 10^2
xstrtod(hundredths) == float64_div(float64_from_int(hundredths), float64_from_int(100))

\* res += a[i] for the elements from i on
RECURSIVE sum_from(_, _, _)
sum_from(a, i, res) ==
    IF i > Len(a) THEN res ELSE sum_from(a, i + 1, float64_add(res, a[i]))

\* r[j] += a[i + j] for the blocks of eight from i up to stop
RECURSIVE lane_sum(_, _, _, _)
lane_sum(a, i, stop, r) ==
    IF i > stop THEN r ELSE lane_sum(a, i + 8, stop, float64_add(r, a[i]))

\* numpy's sum of up to 128 float64: fewer than eight are added in order;
\* otherwise eight partial sums run over the blocks of eight, are added in
\* pairs, and the rest is added in order
pairwise_sum(a) ==
    LET n == Len(a)
        stop == n - (n % 8)
        r == [j \in 1..8 |-> lane_sum(a, j + 8, stop, a[j])]
        res == float64_add(float64_add(float64_add(r[1], r[2]), float64_add(r[3], r[4])),
                           float64_add(float64_add(r[5], r[6]), float64_add(r[7], r[8])))
    IN  IF n < 8 THEN sum_from(a, 1, Float64Zero) ELSE sum_from(a, stop + 1, res)

\* the orders in which a build adds up a column: numpy's pairwise sum, or
\* one element after the other
SumOrders == {"pairwise", "in_order"}

float64_sum(a, order) ==
    IF order = "pairwise" THEN pairwise_sum(a) ELSE sum_from(a, 1, Float64Zero)

\* len(df[df[col] / df[col].sum() > 0.1]) on the float64 amounts
high_dependency_float64(amounts, order) ==
    LET total == float64_sum(amounts, order)
    IN  Cardinality({i \in 1..Len(amounts) :
                        float64_gt(float64_div(amounts[i], total), Tenth64)})

MaxEqual == 10          \* longest file of equal amounts

\* amounts in hundredths, as the file writes them: 0.07, 0.13, ...
AmountTexts == {7, 13, 26, 52, 69, 95, 100}

\* supplier files whose suppliers all have the same amount
EqualAmountFiles ==
    {[factory |-> <<>>, supplier |-> SubSeq([i \in 1..MaxEqual |-> c], 1, n),
      category |-> <<>>, unreadable |-> "none"] :
        c \in AmountTexts, n \in 1..MaxEqual}

RoundingInit == InitWith(EqualAmountFiles)

\* load_data: the amount column as float64
ReadAmounts ==
    /\ pc = "load"
    /\ supplier_data' = SubSeq([i \in 1..Len(csv.supplier) |-> xstrtod(csv.supplier[i])],
                               1, Len(csv.supplier))
    /\ pc' = "tab1"
    /\ UNCHANGED <<csv, factory_data, category_data, tab1, tab_manager, tab2, tab3, tab4,
                   tab5, exception>>
    /\ UNCHANGED session_vars

\* with tab1: high_dependency
CountDependency ==
    /\ pc = "tab1"
    /\ \E order \in SumOrders :
        tab1' = [run |-> TRUE, sum_order |-> order,
                 total |-> float64_sum(supplier_data, order),
                 high_dependency |-> high_dependency_float64(supplier_data, order)]
    /\ pc' = "done"
    /\ UNCHANGED <<csv, factory_data, supplier_data, category_data, tab_manager, tab2, tab3,
                   tab4, tab5, exception>>
    /\ UNCHANGED session_vars

RoundingNext == ReadAmounts \/ CountDependency

RoundingSpec == RoundingInit /\ [][RoundingNext]_vars

---------------------------------------------------------------------------
(* properties *)

MaxRank == 3            \* largest n of the rankings tried for every n

Min(a, b) == IF a < b THEN a ELSE b

\* the integer an amount column holds
AmountOf(x) == x.n

\* C1: for every sub-category row the computed growth rate is 0 when both
\* spends are 0, +inf ("new") when only spend_2024 is 0, -100
\* ("discontinued") when only spend_2025 is 0, and otherwise
\* (spend_2025 - spend_2024) / spend_2024 * 100.
C1_GrowthRateRule ==
    tab2.run =>
        /\ Len(tab2.subcategory_data) = Len(category_data)
        /\ \A i \in 1..Len(category_data) :
            LET a == AmountOf(category_data[i].spend_2024)
                b == AmountOf(category_data[i].spend_2025)
                rate == tab2.subcategory_data[i].growth_rate
            IN  /\ tab2.subcategory_data[i].id = category_data[i].id
                /\ IF a = 0 /\ b = 0 THEN rate = Num(0)
                   ELSE IF a = 0 /\ b > 0 THEN rate = Inf
                   ELSE IF b = 0 /\ a > 0 THEN rate = Num(-100)
                   ELSE rate.k = "num" /\ rate.n * a = (b - a) * 100 * rate.d

\* a file with a new row and an ordinary row has been analysed
C1_Witness ==
    /\ tab2.run
    /\ \E i, j \in 1..Len(category_data) :
        /\ tab2.subcategory_data[i].growth_rate = Inf
        /\ tab2.subcategory_data[j].growth_rate = Rat(-250, 3)

\* C2: the growth amount every ranking by growth amount and the category
\* summary use for a row is that row's 2025 amount minus its 2024 amount.
C2_GrowthAmountIsDifference ==
    /\ tab_manager.run =>
        /\ \A p \in 1..Len(tab_manager.top_10_growth_suppliers) :
            LET r == tab_manager.top_10_growth_suppliers[p]
            IN  FEq(r.growth_amount, Num(AmountOf(r.budget_2025) - AmountOf(r.amount_2024)))
        /\ \A p \in 1..Len(tab_manager.top_10_growth_subcategories) :
            LET r == tab_manager.top_10_growth_subcategories[p]
            IN  FEq(r.growth_amount, Num(AmountOf(r.spend_2025) - AmountOf(r.spend_2024)))
    /\ tab2.run =>
        \A p \in 1..Len(tab2.category_summary) :
            LET r == tab2.category_summary[p]
            IN  FEq(r.growth_amount, Num(AmountOf(r.spend_2025) - AmountOf(r.spend_2024)))

\* the rows of result are rows of input, each at most once
RowsOf(result, input) ==
    /\ \A p \in 1..Len(result) : result[p] \in Range(input)
    /\ \A p, q \in 1..Len(result) : p # q => result[p].id # result[q].id

\* no later row of result has a key larger (desc) or smaller than an earlier one
SortedBy(result, col, desc) ==
    \A p, q \in 1..Len(result) :
        p < q => IF desc THEN ~FLt(result[p][col], result[q][col])
                 ELSE ~FGt(result[p][col], result[q][col])

Ranked(result, input, n, col, desc) ==
    /\ RowsOf(result, input)
    /\ Len(result) = Min(n, Len(input))
    /\ SortedBy(result, col, desc)

\* C3: top_n and bottom_n hold only rows of the input, min(n, |records|) of
\* them, top_n in descending and bottom_n in ascending order of the key: for
\* the rankings the tabs show and for every n up to MaxRank.
C3_TopNContract ==
    /\ tab1.run =>
        /\ Ranked(tab1.top10, supplier_data, TopN, "amount_2024", TRUE)
        /\ Ranked(tab1.top5, supplier_data, TopK, "amount_2024", TRUE)
    /\ tab2.run =>
        /\ Ranked(tab2.top_growth, tab2.valid_growth_data, TopN, "growth_rate", TRUE)
        /\ Ranked(tab2.top_decline, tab2.valid_growth_data, TopN, "growth_rate", FALSE)
        /\ RowsOf(tab2.valid_growth_data, category_data)
    /\ tab3.run => Ranked(tab3.top10_2024, supplier_data, TopN, "amount_2024", TRUE)
    /\ pc = "tab1" =>
        \A n \in 1..MaxRank :
            /\ Ranked(nlargest(supplier_data, n, "amount_2024"), supplier_data,
                      n, "amount_2024", TRUE)
            /\ Ranked(nsmallest(supplier_data, n, "amount_2024"), supplier_data,
                      n, "amount_2024", FALSE)
            /\ Ranked(nlargest(category_data, n, "growth_rate"), category_data,
                      n, "growth_rate", TRUE)
            /\ Ranked(nsmallest(category_data, n, "growth_rate"), category_data,
                      n, "growth_rate", FALSE)

\* the Top 5 of six suppliers with three different amounts, and a growth
\* ranking that holds a row without a growth rate
C3_Witness ==
    \/ /\ tab1.run
       /\ Len(supplier_data) = 6
       /\ Len(tab1.top5) = 5
       /\ Cardinality({supplier_data[i].amount_2024 : i \in 1..6}) = 3
    \/ /\ tab2.run
       /\ Len(tab2.top_growth) = 2
       /\ IsNaN(tab2.top_growth[2].growth_rate)

\* rows of equal key are taken, and listed, in input order
StableUnderTies(result, input, col) ==
    LET Tie(r, t) == FEq(r[col], t[col]) \/ (IsNaN(r[col]) /\ IsNaN(t[col]))
        In(r) == \E p \in 1..Len(result) : result[p].id = r.id
    IN  /\ \A p, q \in 1..Len(result) :
            p < q /\ Tie(result[p], result[q]) => result[p].id < result[q].id
        /\ \A i, j \in 1..Len(input) :
            Tie(input[i], input[j]) /\ In(input[j]) /\ ~In(input[i])
                => input[j].id < input[i].id

\* C4: top_n and bottom_n are stable under ties: among rows of equal key the
\* rows selected, and their order in the result, follow the input order; two
\* calls on the same input return the same sequence.
C4_StableRanking ==
    /\ tab1.run =>
        /\ StableUnderTies(tab1.top10, supplier_data, "amount_2024")
        /\ StableUnderTies(tab1.top5, supplier_data, "amount_2024")
    /\ tab2.run =>
        /\ StableUnderTies(tab2.top_growth, tab2.valid_growth_data, "growth_rate")
        /\ StableUnderTies(tab2.top_decline, tab2.valid_growth_data, "growth_rate")
    /\ tab4.run => tab4.top5 = tab1.top5
    /\ pc = "tab1" =>
        \A n \in 1..MaxRank :
            /\ StableUnderTies(nlargest(supplier_data, n, "amount_2024"),
                               supplier_data, "amount_2024")
            /\ StableUnderTies(nsmallest(supplier_data, n, "amount_2024"),
                               supplier_data, "amount_2024")

\* the Top 5 of six suppliers leaves out a supplier whose amount one of the
\* five has too, and both risk-tab and overview Top 5 have been computed
C4_Witness ==
    /\ tab4.run
    /\ Len(supplier_data) = 6
    /\ \E i \in 1..6 : \E p \in 1..Len(tab1.top5) :
        /\ \A q \in 1..Len(tab1.top5) : tab1.top5[q].id # supplier_data[i].id
        /\ tab1.top5[p].amount_2024 = supplier_data[i].amount_2024

\* C5: no row of the Top 10 high-growth or Top 10 negative-growth ranking
\* has the growth rate +inf or -100 or a 2024 spend that is not above 100000;
\* a row with spend_2024 = 0 and spend_2025 = 50000 is in neither.
C5_RankingExcludesSentinels ==
    tab2.run =>
        \A r \in Range(tab2.top_growth) \cup Range(tab2.top_decline) :
            /\ r.growth_rate # Inf
            /\ r.growth_rate # Num(-100)
            /\ AmountOf(r.spend_2024) > 100000
            /\ ~(AmountOf(r.spend_2024) = 0 /\ AmountOf(r.spend_2025) = 50000)

\* a file with the new row of the example and a row that is ranked
C5_Witness ==
    /\ tab2.run
    /\ Len(tab2.top_decline) > 0
    /\ \E i \in 1..Len(category_data) :
        /\ AmountOf(category_data[i].spend_2024) = 0
        /\ AmountOf(category_data[i].spend_2025) = 50000
        /\ category_data[i].growth_rate = Inf

\* the sum of a sequence of numbers, nothing skipped
RECURSIVE Total(_)
Total(xs) == IF Len(xs) = 0 THEN Num(0) ELSE FAdd(xs[1], Total(Tail(xs)))

\* some amount of the column is positive (no amount is negative)
PositiveTotal(df, col) == \E i \in 1..Len(df) : AmountOf(df[i][col]) > 0

SumsTo100(df, col, shares) == PositiveTotal(df, col) => Total(shares) = Num(100)

\* C6: over a record set with positive total the shares of the total sum to
\* 100: supplier shares, category shares of 2024 and of 2025, the shares of
\* the suppliers of one category or sub-category, the amount shares of the tiers.
C6_SharesSumTo100 ==
    /\ tab2.run =>
        /\ SumsTo100(tab2.category_summary, "spend_2024",
                     Column(tab2.category_analysis_2024, "purchase_share"))
        /\ SumsTo100(tab2.category_summary, "spend_2025",
                     Column(tab2.category_analysis_2025, "purchase_share"))
        /\ SumsTo100(tab2.category_suppliers, "amount_2024",
                     Column(tab2.category_suppliers, "purchase_share"))
    /\ tab3.run => SumsTo100(supplier_data, "amount_2024", tab3.purchase_share)
    /\ tab3.run /\ tab3.qcut_ok =>
        /\ SumsTo100(supplier_data, "amount_2024",
                     Column(tab3.supplier_analysis, "purchase_share"))
        /\ SumsTo100(supplier_data, "amount_2024", tab3.supplier_level_amount_pct)
    /\ tab5.run =>
        /\ SumsTo100(tab5.supplier_detail, "amount_2024",
                     Column(tab5.supplier_detail, "share_2024"))
        /\ SumsTo100(tab5.supplier_detail, "budget_2025",
                     Column(tab5.supplier_detail, "share_2025"))

\* six suppliers with three different shares have been tiered, and two
\* categories have got their shares
C6_Witness ==
    /\ tab5.run
    /\ tab3.qcut_ok
    /\ Len(supplier_data) = 6
    /\ Cardinality(Range(tab3.purchase_share)) = 3
    /\ Len(tab2.category_analysis_2025) = 2
    /\ PositiveTotal(tab2.category_summary, "spend_2025")

\* C7: share_of_total fails whenever the sum of the amounts is zero (the
\* empty record set included) and never returns shares then: whenever a tab
\* has got the shares of the suppliers of a category or sub-category, the
\* sum they were divided by was not zero.
C7_ZeroSumSignalled ==
    /\ tab2.run => ColSum(tab2.category_suppliers, "amount_2024") # Num(0)
    /\ tab5.run =>
        /\ ColSum(tab5.supplier_detail, "amount_2024") # Num(0)
        /\ ColSum(tab5.supplier_detail, "budget_2025") # Num(0)

RECURSIVE SetSum(_, _)
SetSum(df, I) ==
    IF I = {} THEN 0
    ELSE LET i == CHOOSE j \in I : TRUE
         IN  AmountOf(df[i].amount_2024) + SetSum(df, I \ {i})

\* the largest sum that k of the amounts (all, when there are fewer) can have
LargestSum(df, k) ==
    LET sums == {SetSum(df, I) : I \in {J \in SUBSET (1..Len(df)) :
                                        Cardinality(J) = Min(k, Len(df))}}
    IN  CHOOSE v \in sums : \A w \in sums : w <= v

\* v is LargestSum / total * 100, NaN (0/0) when the total is 0
IsConcentration(v, df, k) ==
    LET total == SetSum(df, 1..Len(df))
    IN  IF total = 0 THEN IsNaN(v)
        ELSE v.k = "num" /\ v.n * total = 100 * LargestSum(df, k) * v.d

Ids(df) == [i \in 1..Len(df) |-> df[i].id]

\* C8: a concentration ratio is the sum of the k largest amounts divided by
\* the total of all amounts, times 100; for A 100, B 200, C 300, D 400 the
\* shares are 10, 20, 30, 40, the top 2 by amount are D, C and the
\* concentration of the top 2 is 70.
C8_ConcentrationRatio ==
    /\ tab1.run =>
        /\ IsConcentration(tab1.top10_share, supplier_data, TopN)
        /\ IsConcentration(tab1.top5_concentration, supplier_data, TopK)
    /\ tab4.run => IsConcentration(tab4.top5_concentration, supplier_data, TopK)
    /\ tab3.run /\ supplier_data = WithIndex(ExampleRecords) =>
        /\ tab3.purchase_share = <<Num(10), Num(20), Num(30), Num(40)>>
        /\ Ids(nlargest(supplier_data, 2, "amount_2024")) = <<3, 2>>
        /\ concentration_ratio(supplier_data, "amount_2024", 2) = Num(70)
        /\ tab1.top5_concentration = Num(100)

\* the example has gone through the overview, the supplier and the risk tab
C8_Witness ==
    /\ tab4.run
    /\ supplier_data = WithIndex(ExampleRecords)
    /\ tab3.purchase_share[4] = Num(40)

\* C9: the concentration ratio never decreases in k,
\* concentration_ratio(k) <= concentration_ratio(k+1) for every k < |records|,
\* and the Top5 concentration does not exceed the Top10 share.
C9_MonotoneInK ==
    tab1.run =>
        /\ \A k \in 1..(Len(supplier_data) - 1) :
            FLe(concentration_ratio(supplier_data, "amount_2024", k),
                concentration_ratio(supplier_data, "amount_2024", k + 1))
        /\ ~FGt(tab1.top5_concentration, tab1.top10_share)

\* the number of suppliers whose amount is more than a tenth of the total
OverTenth(df) ==
    Cardinality({i \in 1..Len(df) :
        AmountOf(df[i].amount_2024) * 10 > SetSum(df, 1..Len(df))})

TierCount(analysis, label) ==
    Cardinality({i \in 1..Len(analysis) : analysis[i].tier = label})

\* 100 rows whose amounts are 100 different, equally spaced numbers
IsUniform(df) ==
    LET amounts == {AmountOf(df[i].amount_2024) : i \in 1..Len(df)}
        lowest == CHOOSE a \in amounts : \A b \in amounts : a <= b
    IN  /\ Len(df) = 100
        /\ \E step \in 1..3 : amounts = {lowest + step * i : i \in 0..99}

\* C11: quartile tiering of 100 records with 100 different, equally spaced
\* amounts completes and gives each of the tiers D, C, B, A exactly 25 records.
C11_UniformQuartiles ==
    tab3.run /\ IsUniform(supplier_data) =>
        /\ tab3.qcut_ok
        /\ \A p \in 1..4 : TierCount(tab3.supplier_analysis, TierLabels[p]) = 25

\* a file of 100 equally spaced amounts in falling order has been tiered
C11_Witness ==
    /\ tab3.run
    /\ tab3.qcut_ok
    /\ IsUniform(supplier_data)
    /\ AmountOf(supplier_data[1].amount_2024) > AmountOf(supplier_data[100].amount_2024)
    /\ tab3.supplier_analysis[1].tier = "A"

\* C12: the quartile tiering of the 12 suppliers with the amounts 10, 10, 10,
\* 10, 20, 20, 20, 20, 30, 30, 40, 50 completes and puts 3 suppliers into
\* each of the four tiers.
C12_TwelveSuppliersSplit ==
    tab3.run /\ supplier_data = WithIndex(TwelveSuppliers) =>
        /\ tab3.qcut_ok
        /\ \A p \in 1..4 : TierCount(tab3.supplier_analysis, TierLabels[p]) = 3

\* the k-th smallest amount of the table
OrderStatistic(df, k) ==
    LET amounts == {AmountOf(df[i].amount_2024) : i \in 1..Len(df)}
    IN  CHOOSE v \in amounts :
            /\ Cardinality({i \in 1..Len(df) : AmountOf(df[i].amount_2024) < v}) < k
            /\ Cardinality({i \in 1..Len(df) : AmountOf(df[i].amount_2024) <= v}) >= k

\* four times the j-th quartile (j = 0..4) of the amounts: the position
\* (n - 1) * j / 4 between the order statistics, linearly interpolated
FourQuartiles(df, j) ==
    LET h == (Len(df) - 1) * j
        lo == h \div 4
        r == h % 4
    IN  IF r = 0 THEN 4 * OrderStatistic(df, lo + 1)
        ELSE (4 - r) * OrderStatistic(df, lo + 1) + r * OrderStatistic(df, lo + 2)

\* C13: a supplier whose amount equals the 25th, 50th or 75th percentile of
\* the amounts of this run is put into the lower of the two tiers that meet
\* there, and every tier is the set of suppliers between two neighbouring
\* quartiles of this run's amounts (above the lower, up to the upper one).
C13_BoundaryTiesGoLower ==
    tab3.run /\ tab3.qcut_ok =>
        LET q == <<FourQuartiles(supplier_data, 0), FourQuartiles(supplier_data, 1),
                   FourQuartiles(supplier_data, 2), FourQuartiles(supplier_data, 3),
                   FourQuartiles(supplier_data, 4)>>
        IN  \A i \in 1..Len(supplier_data) :
                LET a == 4 * AmountOf(supplier_data[i].amount_2024)
                    tier == tab3.supplier_analysis[i].tier
                IN  /\ \A j \in 1..3 : a = q[j + 1] => tier = TierLabels[j]
                    /\ \A p \in 1..4 :
                        tier = TierLabels[p] <=>
                            (q[p] < a \/ (p = 1 /\ q[1] = a)) /\ a <= q[p + 1]

\* a supplier at the median of three has been tiered
C13_Witness ==
    /\ tab3.run
    /\ tab3.qcut_ok
    /\ Len(supplier_data) = 3
    /\ 4 * AmountOf(supplier_data[1].amount_2024) = FourQuartiles(supplier_data, 2)
    /\ tab3.supplier_analysis[1].tier = "C"

\* C14: the tiering fails exactly when the amounts have fewer than 4
\* different values, and no supplier has a tier when it fails.
C14_FailsBelowFourValues ==
    tab3.run =>
        LET values == {supplier_data[i].amount_2024 : i \in 1..Len(supplier_data)}
        IN  /\ tab3.qcut_ok <=> Cardinality(values) >= 4
            /\ ~tab3.qcut_ok => exception = "ValueError" /\ pc = "stopped"

\* the rate is (b - a) / a * 100 to the one decimal the summary keeps (the
\* spends of the files are multiples of 50000)
IsRateOfSums(rate, a, b) ==
    LET A == a \div 50000
        B == b \div 50000
    IN  /\ rate.k = "num"
        /\ Abs(rate.n * A - (B - A) * 100 * rate.d) * 20 <= rate.d * A

\* C15: the growth rate of every category with a positive 2024 spend is
\* (sum of spend_2025 - sum of spend_2024) / sum of spend_2024 * 100 over the
\* rows of the category (to the one decimal the summary is rounded to).
C15_CategoryRateFromSums ==
    /\ tab2.run =>
        \A p \in 1..Len(tab2.category_summary) :
            LET r == tab2.category_summary[p]
            IN  AmountOf(r.spend_2024) > 0 =>
                    IsRateOfSums(r.growth_rate, AmountOf(r.spend_2024), AmountOf(r.spend_2025))
    /\ tab5.run =>
        \A p \in 1..Len(tab5.category_summary) :
            LET r == tab5.category_summary[p]
            IN  AmountOf(r.spend_2024) > 0 =>
                    IsRateOfSums(r.growth_rate, AmountOf(r.spend_2024), AmountOf(r.spend_2025))

\* C16: a category whose summed 2024 spend is 0 has the growth rate 0 when
\* its summed 2025 spend is 0 too, and +inf ("new") when that is positive.
C16_ZeroBaseCategoryRate ==
    tab2.run =>
        \A p \in 1..Len(tab2.category_summary) :
            LET r == tab2.category_summary[p]
            IN  AmountOf(r.spend_2024) = 0 =>
                    /\ AmountOf(r.spend_2025) = 0 => r.growth_rate = Num(0)
                    /\ AmountOf(r.spend_2025) > 0 => r.growth_rate = Inf

\* C17: every category is in exactly one quadrant, by the sign of its share
\* change and by its share against the mean share: a category whose share
\* went down and is above the mean share (in both years) is reported as
\* declining, and no category is reported in two classes.
C17_QuadrantOfEveryCategory ==
    tab2.run =>
        /\ \A p \in 1..Len(tab2.category_changes) :
            LET r == tab2.category_changes[p]
            IN  /\ FLt(r.share_change, Num(0))
                /\ FGt(r.share_2024, mean(tab2.category_changes, "share_2024"))
                /\ FGt(r.share_2025, mean(tab2.category_changes, "share_2025"))
                => r.Category \in Range(tab2.declining)
        /\ Range(tab2.declining) \cap Range(tab2.new_important) = {}

\* C18: after load_data has returned, the supplier, category and factory
\* tables are the tables it returned at every point of the run: no row is
\* removed and no column of theirs is overwritten.
C18_LoadedTablesUnchanged ==
    pc # "load" =>
        LET loaded == load_data(csv)
        IN  /\ supplier_data = loaded.supplier_data
            /\ category_data = loaded.category_data
            /\ factory_data = loaded.factory_data

\* a run has passed the manager tab and ended with a supplier table whose
\* growth amount could not be converted, the row still there
C18_Witness ==
    /\ pc = "done"
    /\ tab_manager.run
    /\ Len(supplier_data) = 2
    /\ csv.supplier[1].growth_amount = Text(<<"1", "x">>)
    /\ IsNaN(supplier_data[1].growth_amount)

\* C19: neither the factory scale chart nor the factory growth-rate chart has
\* a bar for the total row; both have one for every other row, in file order.
C19_TotalRowExcluded ==
    tab1.run =>
        LET units == SelectSeq(factory_data, LAMBDA r : r.Business_Unit # TotalLabel)
        IN  /\ \A p \in 1..Len(tab1.factory_bars) : tab1.factory_bars[p].name # TotalLabel
            /\ \A p \in 1..Len(tab1.growth_data) :
                    tab1.growth_data[p].Business_Unit # TotalLabel
            /\ Column(tab1.factory_bars, "name") = Column(units, "Business_Unit")
            /\ tab1.growth_data = units

\* a factory file whose first row is the total row has been charted
C19_Witness ==
    /\ tab1.run
    /\ Len(factory_data) = 3
    /\ factory_data[1].Business_Unit = TotalLabel
    /\ Len(tab1.factory_bars) = 2
    /\ Len(tab1.growth_data) = 2

\* the digit a character is, and the number a string of digits spells
DigitOf(c) == CHOOSE n \in 0..9 : <<"0", "1", "2", "3", "4", "5", "6", "7", "8", "9">>[n + 1] = c

RECURSIVE NumberOf(_)
NumberOf(t) ==
    IF Len(t) = 0 THEN 0
    ELSE LET RECURSIVE Power(_)
             Power(l) == IF l = 0 THEN 1 ELSE 10 * Power(l - 1)
         IN  DigitOf(t[1]) * Power(Len(t) - 1) + NumberOf(Tail(t))

\* the number a text cell stands for: without its commas it is one or more
\* digits followed by percent signs only; NaN for any other text
Spelled(t) ==
    LET u == SelectSeq(t, LAMBDA c : c # ",")
        IsDigit(c) == c \in {"0", "1", "2", "3", "4", "5", "6", "7", "8", "9"}
        digits == Cardinality({l \in 1..Len(u) : \A m \in 1..l : IsDigit(u[m])})
    IN  IF digits >= 1 /\ \A m \in (digits + 1)..Len(u) : u[m] = "%"
        THEN Num(NumberOf(SubSeq(u, 1, digits)))
        ELSE NaN

SpelledColumn(file, table, col) ==
    /\ Len(table) = Len(file)
    /\ \A i \in 1..Len(file) :
        IF file[i][col].k = "str" THEN table[i][col] = Spelled(file[i][col].s)
        ELSE table[i][col] = file[i][col]

\* C20: load_data turns every cell of a text column into the number it
\* spells once thousands separators and trailing percent signs are removed,
\* and into NaN when that is no number; it raises nothing; a column that
\* holds numbers is returned as it was read.
C20_NumericCoercion ==
    pc = "tab1" =>
        /\ exception = ""
        /\ \A c \in 1..4 :
            /\ SpelledColumn(csv.supplier, supplier_data, supplier_numeric_columns[c])
            /\ SpelledColumn(csv.category, category_data, category_numeric_columns[c])
            /\ SpelledColumn(csv.factory, factory_data, numeric_columns[c])

\* a file that spells a growth amount with a thousands separator and a
\* percent sign has been loaded
C20_Witness ==
    /\ pc = "tab1"
    /\ Len(csv.supplier) = 2
    /\ csv.supplier[1].growth_amount = Text(<<"1", ",", "%">>)
    /\ supplier_data[1].growth_amount = Num(1)
    /\ supplier_data[2].growth_amount = Num(2)

\* a growth rate that is one of the two sentinels
IsSentinel(x) == x = Inf \/ x = Num(-100)

\* C21: in the sub-category growth-rate chart no bar of a new or
\* discontinued sub-category has the height of a bar of an ordinary one.
C21_SentinelBarsDistinct ==
    tab2.run =>
        \A c \in 1..Len(tab2.growth_chart) :
            LET bars == tab2.growth_chart[c].bars
            IN  \A p, q \in 1..Len(bars) :
                    IsSentinel(bars[p].growth_rate) /\ ~IsSentinel(bars[q].growth_rate)
                        => bars[p].y # bars[q].y

\* C22: the strategy matrix shows 50 suppliers, or all when there are fewer,
\* and no supplier it leaves out has a larger 2024 amount than one it shows.
C22_MatrixShowsLargest ==
    tab3.run =>
        LET shown == tab3.strategy_matrix
            ids == {shown[p].id : p \in 1..Len(shown)}
        IN  /\ Len(shown) = (IF Len(supplier_data) < 50 THEN Len(supplier_data) ELSE 50)
            /\ \A p \in 1..Len(shown) : \A i \in 1..Len(supplier_data) :
                    supplier_data[i].id \notin ids
                        => FLe(supplier_data[i].amount_2024, shown[p].amount_2024)

\* the rows of a category whose spends are those of a new, a discontinued or
\* any other sub-category
IsNew(r) == AmountOf(r.spend_2024) = 0 /\ AmountOf(r.spend_2025) > 0
IsDiscontinued(r) == AmountOf(r.spend_2025) = 0 /\ AmountOf(r.spend_2024) > 0

\* C26: the computed growth rate of a sub-category is -100 exactly when its
\* 2025 spend is 0 and its 2024 spend is not, and +inf exactly when its 2024
\* spend is 0 and its 2025 spend is not; the summary of every category lists
\* exactly those rows as stopped and as new and keeps the rate of every
\* other row.
C26_SentinelsExactlyNewAndStopped ==
    tab2.run =>
        /\ \A i \in 1..Len(tab2.subcategory_data) :
            LET r == tab2.subcategory_data[i]
            IN  /\ r.growth_rate = Num(-100) <=> IsDiscontinued(r)
                /\ r.growth_rate = Inf <=> IsNew(r)
        /\ \A c \in 1..Len(tab2.growth_summary) :
            LET summary == tab2.growth_summary[c]
                detail == SelectSeq(tab2.subcategory_data,
                                    LAMBDA r : r.Category = summary.Category)
            IN  /\ summary.new_items = SelectSeq(detail, IsNew)
                /\ summary.stopped_items = SelectSeq(detail, IsDiscontinued)
                /\ summary.valid_growth =
                       Column(SelectSeq(detail, LAMBDA r : ~IsNew(r) /\ ~IsDiscontinued(r)),
                              "growth_rate")

\* a category with a new sub-category and one that doubled has been
\* summarised: one new item, and the rate 100 among the valid ones
C26_Witness ==
    /\ tab2.run
    /\ Len(tab2.growth_summary) = 1
    /\ Len(tab2.growth_summary[1].new_items) = 1
    /\ tab2.growth_summary[1].valid_growth = <<Num(100)>>

\* C28: when the category totals of both years are positive, the share
\* changes of the categories sum to zero, the category reported as the
\* largest increase has a share change >= 0 and the one reported as the
\* largest decrease a share change <= 0.
C28_ShareChangesBalance ==
    tab2.run /\ PositiveTotal(tab2.category_summary, "spend_2024")
             /\ PositiveTotal(tab2.category_summary, "spend_2025") =>
        /\ ColSum(tab2.category_changes, "share_change") = Num(0)
        /\ FLe(Num(0), tab2.up_cat.share_change)
        /\ FLe(tab2.down_cat.share_change, Num(0))
        /\ \A p \in 1..Len(tab2.category_changes) :
            /\ FLe(tab2.category_changes[p].share_change, tab2.up_cat.share_change)
            /\ FLe(tab2.down_cat.share_change, tab2.category_changes[p].share_change)

\* two categories have exchanged 20 points of share
C28_Witness ==
    /\ tab2.run
    /\ PositiveTotal(tab2.category_summary, "spend_2024")
    /\ PositiveTotal(tab2.category_summary, "spend_2025")
    /\ tab2.up_cat.Category = "c2"
    /\ tab2.up_cat.share_change = Num(20)
    /\ tab2.down_cat.share_change = Num(-20)

\* the suppliers of a category and sub-category
SuppliersOf(c, sub) ==
    SelectSeq(supplier_data, LAMBDA r : r.Category = c /\ r.Sub_Category = sub)

\* C29: every sub-category the cost-reduction guide offers under a category
\* has a summed 2025 budget above 0 and a supplier detail list that is not
\* empty; the list holds the suppliers of that category and sub-category
\* whose 2025 budget is above 0.
C29_OfferedSubcategoryHasSuppliers ==
    tab_manager.run =>
        \A q \in 1..Len(tab_manager.cost_guide) :
            LET entry == tab_manager.cost_guide[q]
            IN  \A p \in 1..Len(entry.options) :
                    LET option == entry.options[p]
                        group == SuppliersOf(entry.Category, option.Sub_Category)
                    IN  /\ option.budget_2025 = ColSum(group, "budget_2025")
                        /\ AmountOf(option.budget_2025) > 0
                        /\ Len(option.subcat_suppliers_detail) >= 1
                        /\ option.subcat_suppliers_detail =
                               SelectSeq(group, LAMBDA r : AmountOf(r.budget_2025) > 0)

\* the guide offers a sub-category one of whose suppliers has no 2025 budget:
\* the detail list is shorter than the group and not empty
C29_Witness ==
    /\ tab_manager.run
    /\ \E q \in 1..Len(tab_manager.cost_guide) :
        LET entry == tab_manager.cost_guide[q]
        IN  \E p \in 1..Len(entry.options) :
                /\ Len(entry.options[p].subcat_suppliers_detail) >= 1
                /\ Len(entry.options[p].subcat_suppliers_detail)
                       < Len(SuppliersOf(entry.Category, entry.options[p].Sub_Category))

\* the height of a tier: A is the top quartile
TierRank(tier) == CASE tier = "D" -> 1 [] tier = "C" -> 2 [] tier = "B" -> 3 [] tier = "A" -> 4

\* C30: when the tiering succeeds every supplier has one of the tiers D, C,
\* B, A, suppliers with equal 2024 amounts have the same tier, and a supplier
\* with a smaller amount has no higher tier than one with a larger amount.
C30_TiersFollowAmounts ==
    tab3.run /\ tab3.qcut_ok =>
        LET analysis == tab3.supplier_analysis
        IN  /\ Len(analysis) = Len(supplier_data)
            /\ \A i \in 1..Len(analysis) :
                /\ analysis[i].id = supplier_data[i].id
                /\ analysis[i].tier \in {"D", "C", "B", "A"}
            /\ \A i, j \in 1..Len(analysis) :
                LET a == AmountOf(supplier_data[i].amount_2024)
                    b == AmountOf(supplier_data[j].amount_2024)
                IN  /\ a = b => analysis[i].tier = analysis[j].tier
                    /\ a < b => TierRank(analysis[i].tier) <= TierRank(analysis[j].tier)

\* four suppliers have been tiered: one in D, a larger one in C and a still
\* larger one in A
C30_Witness ==
    /\ tab3.run
    /\ tab3.qcut_ok
    /\ Len(supplier_data) = 4
    /\ \E i, j, k \in 1..4 :
        /\ tab3.supplier_analysis[i].tier = "A"
        /\ tab3.supplier_analysis[j].tier = "D"
        /\ tab3.supplier_analysis[k].tier = "C"
        /\ AmountOf(supplier_data[j].amount_2024) < AmountOf(supplier_data[k].amount_2024)
        /\ AmountOf(supplier_data[k].amount_2024) < AmountOf(supplier_data[i].amount_2024)

\* the run has got past load_data and renders, or has rendered, the tabs
RendersTabs == pc \in {"tab1", "tab_manager", "tab2", "tab3", "tab4", "tab5", "done"}

Tabs == <<tab1, tab_manager, tab2, tab3, tab4, tab5>>

\* C23: when a file cannot be read inside load_data, the status of the
\* session is 'error', its error is the message of the exception, the message
\* is shown and the run has stopped with no table and no tab; a tab is only
\* ever computed in a run whose load_data returned, from the three tables of
\* one complete load.
C23_LoadErrorStopsRun ==
    /\ run.load = "raised" =>
        /\ session_state[run.session].data_load_status = "error"
        /\ session_state[run.session].data_load_error = sidebar.error
        /\ \E k \in 1..3 : sidebar.error = "FileNotFoundError: " \o DATA_FILES[k]
        /\ exception = "FileNotFoundError"
        /\ pc = "stopped"
        /\ factory_data = <<>> /\ supplier_data = <<>> /\ category_data = <<>>
        /\ \A t \in 1..6 : ~Tabs[t].run
    /\ (\E t \in 1..6 : Tabs[t].run) =>
        /\ run.load \in {"read", "cache"}
        /\ \E files \in SessionFiles :
            <<factory_data, supplier_data, category_data>> =
                <<load_data(files).factory_data, load_data(files).supplier_data,
                  load_data(files).category_data>>

\* the category file has gone missing after session s2 had loaded the files
\* with success, and the next run of s2 has failed to load them
C23_Witness ==
    /\ run.load = "raised"
    /\ run.session = "s2"
    /\ csv.unreadable = "category_data"
    /\ session_state["s2"].last_data_update.present
    /\ sidebar.error = "FileNotFoundError: category_data"

\* C24: in the rerun that follows a press of the refresh button load_data
\* reads the files again, and when it has read them the session's
\* last_data_update is the time of that read; in any other run a value
\* cached less than 60 seconds ago is returned as it is, and neither the
\* files are read nor the cache or the session changed.
C24_RefreshReadsAgain ==
    [][pc = "load" /\ pc' # "load" =>
         IF run.after_refresh
         THEN /\ run'.load \in {"read", "raised"}
              /\ run'.load = "read" =>
                    session_state'[run.session].last_data_update = [present |-> TRUE, at |-> now]
         ELSE cache.present /\ now - cache.stored_at < 60 =>
                /\ run'.load = "cache"
                /\ factory_data' = cache.value.factory_data
                /\ supplier_data' = cache.value.supplier_data
                /\ category_data' = cache.value.category_data
                /\ UNCHANGED <<cache, session_state>>]_vars

\* C25: in every run that renders the tabs the status of the session is
\* 'success', its last_data_update is set, and the sidebar shows the update
\* time and the success message.
C25_RenderingSessionLoaded ==
    RendersTabs =>
        /\ session_state[run.session].data_load_status = "success"
        /\ session_state[run.session].last_data_update.present
        /\ sidebar.success
        /\ sidebar.info.present

\* C27: when the amounts are non-negative and their total is positive, at
\* most nine suppliers have a share of the total above 0.1, the shares and
\* the total computed as the machine computes them.
C27_AtMostNineOverTenth ==
    tab1.run => tab1.high_dependency <= 9

====
